---- MODULE Spec2Model ----
(***************************************************************************)
(* A model of ZeroTier's Peer (node/Peer.hpp): the per-remote-node record  *)
(* with its two WanPath blocks, the path activity test, the fixed-path     *)
(* policy, the rendezvous pairing findCommonGround and the versioned       *)
(* binary codec serialize / deserialize.                                   *)
(*                                                                         *)
(* uint64_t values (timestamps, Demarc::Port) live in 0..U64-1 and are     *)
(* subtracted modulo U64, a scaled-down 2^64; on the wire they still take  *)
(* eight bytes.  uint16_t keeps its real width.                            *)
(***************************************************************************)
EXTENDS Integers, Sequences, FiniteSets, TLC

VARIABLES
    peer,   \* the Peer the operations act on (A)
    other,  \* a second Peer: findCommonGround's B, deserialize's target
    op,     \* the last operation called, with its arguments
    ret,    \* what the last operation returned (or the exception it threw)
    buf,    \* the Buffer serialize appends to and deserialize reads
    wrote   \* the records serialize appended to buf, in order (history)

vars == <<peer, other, op, ret, buf, wrote>>

-----------------------------------------------------------------------------
(* Integer widths *)

\* uint64_t arithmetic is modulo U64 (stands for 2^64).
U64 == 4

\* uint16_t arithmetic is modulo 2^16.
U16 == 65536

\* The times passed as `now` and stored in the uint64_t timestamps.
Times == 0 .. (U64 - 1)

\* now - lastReceive on uint64_t operands.
Sub64(x, y) == (x - y) % U64

\* (uint16_t)v
Cast16(v) == v % U16

\* Set in Constants.hpp: a non-fixed path is active while the age of its
\* last receive is below this.  Two ticks of the model's clock stand for it.
ZT_PEER_LINK_ACTIVITY_TIMEOUT == 2

-----------------------------------------------------------------------------
(* InetAddress *)

\* InetAddress::AddressType (TYPE_NULL, AF_INET, AF_INET6)
TYPE_NULL == 0
TYPE_IPV4 == 2
TYPE_IPV6 == 10

NullAddr == [type |-> TYPE_NULL, ip |-> <<>>, port |-> 0]

V4a == [type |-> TYPE_IPV4, ip |-> <<10, 0, 0, 1>>, port |-> 9993]
V4b == [type |-> TYPE_IPV4, ip |-> <<192, 168, 1, 7>>, port |-> 258]
V6a == [type |-> TYPE_IPV6,
        ip |-> <<32, 1, 13, 184, 0, 0, 0, 0, 0, 0, 0, 0, 0, 0, 0, 1>>,
        port |-> 9993]
V6b == [type |-> TYPE_IPV6,
        ip |-> <<254, 128, 0, 0, 0, 0, 0, 0, 0, 0, 0, 0, 0, 0, 0, 2>>,
        port |-> 65535]

Addrs4 == {V4a, V4b}
Addrs6 == {V6a}

\* InetAddress::operator bool
NonNull(addr) == addr.type # TYPE_NULL

isV4(addr) == addr.type = TYPE_IPV4
isV6(addr) == addr.type = TYPE_IPV6

-----------------------------------------------------------------------------
(* Demarc::Port *)

ANY_PORT == U64 - 1
LocalPorts == {1}

-----------------------------------------------------------------------------
(* WanPath *)

\* WanPath::WanPath()
NewWanPath ==
    [lastSend |-> 0, lastReceive |-> 0, lastFirewallOpener |-> 0,
     localPort |-> ANY_PORT, addr |-> NullAddr, fixed |-> FALSE]

\* A slip that drops the fixed override from the activity test.
isActive_NoFixed(wp, now) ==
    NonNull(wp.addr) /\ Sub64(now, wp.lastReceive) < ZT_PEER_LINK_ACTIVITY_TIMEOUT

\* A slip that makes the timeout boundary inclusive.
isActive_Inclusive(wp, now) ==
    NonNull(wp.addr)
    /\ (wp.fixed \/ Sub64(now, wp.lastReceive) <= ZT_PEER_LINK_ACTIVITY_TIMEOUT)

\* A slip that takes the age as a signed difference.
isActive_Signed(wp, now) ==
    NonNull(wp.addr)
    /\ (wp.fixed \/ now - wp.lastReceive < ZT_PEER_LINK_ACTIVITY_TIMEOUT)

\* WanPath::isActive
isActive(wp, now) ==
    NonNull(wp.addr)
    /\ (wp.fixed \/ Sub64(now, wp.lastReceive) < ZT_PEER_LINK_ACTIVITY_TIMEOUT)

-----------------------------------------------------------------------------
(* Peer *)

\* Set in Constants.hpp; four bytes stand for the key here.
ZT_PEER_SECRET_KEY_LENGTH == 4

\* The bytes Identity::serialize writes and Identity::deserialize reads;
\* three stand for them here.
IdentityLength == 3

KeyA == <<17, 34, 51, 68>>
KeyB == <<170, 187, 204, 221>>
IdA == <<1, 2, 3>>
IdB == <<4, 5, 6>>
NullId == <<0, 0, 0>>

\* Peer::Peer(): the placeholder deserialize fills in.
NewPeer(key, id) ==
    [key |-> key, id |-> id,
     ipv4p |-> NewWanPath, ipv6p |-> NewWanPath,
     lastUsed |-> 0, lastUnicastFrame |-> 0, lastMulticastFrame |-> 0,
     lastAnnouncedTo |-> 0,
     vMajor |-> 0, vMinor |-> 0, vRevision |-> 0,
     latency |-> 0]

\* A slip that learns the remote address whether the path is fixed or not.
onReceive_LearnAlways(p, localPort, remoteAddr, hops, verb, now) ==
    LET learn(wp) ==
            [wp EXCEPT !.lastReceive = now, !.addr = remoteAddr,
                       !.localPort = localPort]
        p1 == [p EXCEPT !.lastUsed = now]
        p2 == IF hops # 0 THEN p1
              ELSE IF isV4(remoteAddr)
                   THEN [p1 EXCEPT !.ipv4p = learn(p1.ipv4p)]
                   ELSE [p1 EXCEPT !.ipv6p = learn(p1.ipv6p)]
    IN  CASE verb = "FRAME" -> [p2 EXCEPT !.lastUnicastFrame = now]
          [] verb = "MULTICAST_FRAME" -> [p2 EXCEPT !.lastMulticastFrame = now]
          [] OTHER -> p2

\* A slip that treats a relayed packet as a direct one.
onReceive_RelayedToo(p, localPort, remoteAddr, hops, verb, now) ==
    LET learn(wp) ==
            IF wp.fixed
            THEN [wp EXCEPT !.lastReceive = now]
            ELSE [wp EXCEPT !.lastReceive = now, !.addr = remoteAddr,
                            !.localPort = localPort]
        p1 == [p EXCEPT !.lastUsed = now]
        p2 == IF isV4(remoteAddr)
              THEN [p1 EXCEPT !.ipv4p = learn(p1.ipv4p)]
              ELSE [p1 EXCEPT !.ipv6p = learn(p1.ipv6p)]
    IN  CASE verb = "FRAME" -> [p2 EXCEPT !.lastUnicastFrame = now]
          [] verb = "MULTICAST_FRAME" -> [p2 EXCEPT !.lastMulticastFrame = now]
          [] OTHER -> p2

\* Peer::onReceive
onReceive(p, localPort, remoteAddr, hops, verb, now) ==
    LET learn(wp) ==
            IF wp.fixed
            THEN [wp EXCEPT !.lastReceive = now]
            ELSE [wp EXCEPT !.lastReceive = now, !.addr = remoteAddr,
                            !.localPort = localPort]
        p1 == [p EXCEPT !.lastUsed = now]
        p2 == IF hops # 0 THEN p1
              ELSE IF isV4(remoteAddr)
                   THEN [p1 EXCEPT !.ipv4p = learn(p1.ipv4p)]
                   ELSE [p1 EXCEPT !.ipv6p = learn(p1.ipv6p)]
    IN  CASE verb = "FRAME" -> [p2 EXCEPT !.lastUnicastFrame = now]
          [] verb = "MULTICAST_FRAME" -> [p2 EXCEPT !.lastMulticastFrame = now]
          [] OTHER -> p2

\* Peer::setPathAddress
setPathAddress(p, addr, fixed) ==
    IF isV4(addr) THEN [p EXCEPT !.ipv4p.addr = addr, !.ipv4p.fixed = fixed]
    ELSE IF isV6(addr) THEN [p EXCEPT !.ipv6p.addr = addr, !.ipv6p.fixed = fixed]
    ELSE p

\* Peer::clearFixedFlag
clearFixedFlag(p, t) ==
    CASE t = TYPE_NULL -> [p EXCEPT !.ipv4p.fixed = FALSE, !.ipv6p.fixed = FALSE]
      [] t = TYPE_IPV4 -> [p EXCEPT !.ipv4p.fixed = FALSE]
      [] t = TYPE_IPV6 -> [p EXCEPT !.ipv6p.fixed = FALSE]
      [] OTHER -> p

\* A slip that ignores the fixed flag: every path is forgotten.
forgetDirectPaths_All(p, fixedToo) ==
    [p EXCEPT !.ipv4p.addr = NullAddr, !.ipv6p.addr = NullAddr]

\* A slip that unpins the paths it forgets.
forgetDirectPaths_Unpin(p, fixedToo) ==
    LET forget(wp) ==
            IF fixedToo \/ ~wp.fixed
            THEN [wp EXCEPT !.addr = NullAddr, !.fixed = FALSE] ELSE wp
    IN  [p EXCEPT !.ipv4p = forget(p.ipv4p), !.ipv6p = forget(p.ipv6p)]

\* Peer::forgetDirectPaths
forgetDirectPaths(p, fixedToo) ==
    LET p1 == IF fixedToo \/ ~p.ipv4p.fixed
              THEN [p EXCEPT !.ipv4p.addr = NullAddr] ELSE p
    IN  IF fixedToo \/ ~p1.ipv6p.fixed
        THEN [p1 EXCEPT !.ipv6p.addr = NullAddr] ELSE p1

\* A slip that stores the sample without clamping it to sixteen bits.
addDirectLatencyMeasurment_NoClamp(p, l) ==
    LET ol == p.latency
    IN  IF ol > 0 /\ ol < 10000
        THEN [p EXCEPT !.latency = (ol + l) \div 2]
        ELSE [p EXCEPT !.latency = l]

\* A slip that counts an estimate of exactly 10000 as a plausible prior.
addDirectLatencyMeasurment_Inclusive(p, l) ==
    LET l1 == IF l > 65535 THEN 65535 ELSE l
        ol == p.latency
    IN  IF ol > 0 /\ ol <= 10000
        THEN [p EXCEPT !.latency = (ol + l1) \div 2]
        ELSE [p EXCEPT !.latency = l1]

\* Peer::addDirectLatencyMeasurment.  With ol < 10000 and l <= 65535 the
\* unsigned sum ol + l cannot wrap; the division is C's integer division.
addDirectLatencyMeasurment(p, l) ==
    LET l1 == IF l > 65535 THEN 65535 ELSE l
        ol == p.latency
    IN  IF ol > 0 /\ ol < 10000
        THEN [p EXCEPT !.latency = (ol + l1) \div 2]
        ELSE [p EXCEPT !.latency = l1]

\* Peer::latency
latency(p) == IF p.latency < 65535 THEN p.latency ELSE 65535

\* Peer::setRemoteVersion
setRemoteVersion(p, vmaj, vmin, vrev) ==
    [p EXCEPT !.vMajor = vmaj, !.vMinor = vmin, !.vRevision = vrev]

\* Peer::setLastUsed
setLastUsed(p, now) == [p EXCEPT !.lastUsed = now]

\* Peer::hasDirectPath
hasDirectPath(p) == NonNull(p.ipv4p.addr) \/ NonNull(p.ipv6p.addr)

\* Peer::hasActiveDirectPath
hasActiveDirectPath(p, now) == isActive(p.ipv4p, now) \/ isActive(p.ipv6p, now)

\* Peer::ipv4Path
ipv4Path(p) == p.ipv4p.addr

\* Peer::ipv6Path
ipv6Path(p) == p.ipv4p.addr

\* Peer::ipv4ActivePath
ipv4ActivePath(p, now) == IF isActive(p.ipv4p, now) THEN p.ipv4p.addr ELSE NullAddr

\* Peer::ipv6ActivePath
ipv6ActivePath(p, now) == IF isActive(p.ipv6p, now) THEN p.ipv6p.addr ELSE NullAddr

\* std::pair<InetAddress,InetAddress>()
NoCommonGround == <<NullAddr, NullAddr>>

\* A slip in the order of the rules: a stale IPv6 pair before an active IPv4 pair.
findCommonGround_StaleV6First(a, b, now) ==
    IF isActive(a.ipv6p, now) /\ isActive(b.ipv6p, now)
    THEN <<b.ipv6p.addr, a.ipv6p.addr>>
    ELSE IF NonNull(a.ipv6p.addr) /\ NonNull(b.ipv6p.addr)
    THEN <<b.ipv6p.addr, a.ipv6p.addr>>
    ELSE IF isActive(a.ipv4p, now) /\ isActive(b.ipv4p, now)
    THEN <<b.ipv4p.addr, a.ipv4p.addr>>
    ELSE IF NonNull(a.ipv4p.addr) /\ NonNull(b.ipv4p.addr)
    THEN <<b.ipv4p.addr, a.ipv4p.addr>>
    ELSE NoCommonGround

\* A slip that asks only the first peer whether its IPv6 path is active.
findCommonGround_OneSided(a, b, now) ==
    IF isActive(a.ipv6p, now) /\ NonNull(b.ipv6p.addr)
    THEN <<b.ipv6p.addr, a.ipv6p.addr>>
    ELSE IF isActive(a.ipv4p, now) /\ isActive(b.ipv4p, now)
    THEN <<b.ipv4p.addr, a.ipv4p.addr>>
    ELSE IF NonNull(a.ipv6p.addr) /\ NonNull(b.ipv6p.addr)
    THEN <<b.ipv6p.addr, a.ipv6p.addr>>
    ELSE IF NonNull(a.ipv4p.addr) /\ NonNull(b.ipv4p.addr)
    THEN <<b.ipv4p.addr, a.ipv4p.addr>>
    ELSE NoCommonGround

\* A slip that pairs B's stale IPv6 address with A's IPv4 address.
findCommonGround_Mixed(a, b, now) ==
    IF isActive(a.ipv6p, now) /\ isActive(b.ipv6p, now)
    THEN <<b.ipv6p.addr, a.ipv6p.addr>>
    ELSE IF isActive(a.ipv4p, now) /\ isActive(b.ipv4p, now)
    THEN <<b.ipv4p.addr, a.ipv4p.addr>>
    ELSE IF NonNull(a.ipv6p.addr) /\ NonNull(b.ipv6p.addr)
    THEN <<b.ipv6p.addr, a.ipv4p.addr>>
    ELSE IF NonNull(a.ipv4p.addr) /\ NonNull(b.ipv4p.addr)
    THEN <<b.ipv4p.addr, a.ipv4p.addr>>
    ELSE NoCommonGround

\* A slip that prefers IPv4 when both families are active.
findCommonGround_V4First(a, b, now) ==
    IF isActive(a.ipv4p, now) /\ isActive(b.ipv4p, now)
    THEN <<b.ipv4p.addr, a.ipv4p.addr>>
    ELSE IF isActive(a.ipv6p, now) /\ isActive(b.ipv6p, now)
    THEN <<b.ipv6p.addr, a.ipv6p.addr>>
    ELSE IF NonNull(a.ipv6p.addr) /\ NonNull(b.ipv6p.addr)
    THEN <<b.ipv6p.addr, a.ipv6p.addr>>
    ELSE IF NonNull(a.ipv4p.addr) /\ NonNull(b.ipv4p.addr)
    THEN <<b.ipv4p.addr, a.ipv4p.addr>>
    ELSE NoCommonGround

\* Peer::findCommonGround
findCommonGround(a, b, now) ==
    IF isActive(a.ipv6p, now) /\ isActive(b.ipv6p, now)
    THEN <<b.ipv6p.addr, a.ipv6p.addr>>
    ELSE IF isActive(a.ipv4p, now) /\ isActive(b.ipv4p, now)
    THEN <<b.ipv4p.addr, a.ipv4p.addr>>
    ELSE IF NonNull(a.ipv6p.addr) /\ NonNull(b.ipv6p.addr)
    THEN <<b.ipv6p.addr, a.ipv6p.addr>>
    ELSE IF NonNull(a.ipv4p.addr) /\ NonNull(b.ipv4p.addr)
    THEN <<b.ipv4p.addr, a.ipv4p.addr>>
    ELSE NoCommonGround

-----------------------------------------------------------------------------
(* Buffer: typed append and bounds-checked typed read, network byte order *)

RECURSIVE BE(_, _)
\* The n bytes Buffer::append writes for an n-byte unsigned integer v.
BE(v, n) == IF n = 0 THEN <<>> ELSE Append(BE(v \div 256, n - 1), v % 256)

RECURSIVE FromBE(_)
\* The unsigned integer Buffer::at<T> reads from sizeof(T) bytes.
FromBE(bytes) ==
    IF bytes = <<>> THEN 0
    ELSE FromBE(SubSeq(bytes, 1, Len(bytes) - 1)) * 256 + bytes[Len(bytes)]

\* Buffer::field(p, n): the n bytes at 0-based offset p.
field(b, p, n) == SubSeq(b, p + 1, p + n)

\* Whether n bytes at 0-based offset p lie inside the buffer.
InBounds(b, p, n) == p + n <= Len(b)

\* Demarc::portToInt / Demarc::intToPort
portToInt(port) == port
intToPort(i) == i

-----------------------------------------------------------------------------
(* The codec *)

ZT_PEER_SERIALIZATION_VERSION == 6

\* WanPath::serialize
wanSerialize(wp) ==
    BE(wp.lastSend, 8) \o BE(wp.lastReceive, 8) \o BE(wp.lastFirewallOpener, 8)
    \o BE(portToInt(wp.localPort), 8)
    \o <<wp.addr.type % 256>>
    \o (CASE wp.addr.type = TYPE_IPV4 ->
                SubSeq(wp.addr.ip, 1, 4) \o BE(Cast16(wp.addr.port), 2)
          [] wp.addr.type = TYPE_IPV6 ->
                SubSeq(wp.addr.ip, 1, 16) \o BE(Cast16(wp.addr.port), 2)
          [] OTHER -> <<>>)
    \o <<IF wp.fixed THEN 1 ELSE 0>>

\* Peer::serialize: the bytes it appends.
serialize(p) ==
    <<ZT_PEER_SERIALIZATION_VERSION>> \o p.key \o p.id
    \o wanSerialize(p.ipv4p) \o wanSerialize(p.ipv6p)
    \o BE(p.lastUsed, 8) \o BE(p.lastUnicastFrame, 8)
    \o BE(p.lastMulticastFrame, 8) \o BE(p.lastAnnouncedTo, 8)
    \o BE(Cast16(p.vMajor), 2) \o BE(Cast16(p.vMinor), 2)
    \o BE(Cast16(p.vRevision), 2) \o BE(Cast16(p.latency), 2)

\* A decoder in progress: the object as assigned so far, the read position,
\* and the exception thrown ("" while none).
Cursor(obj, p) == [obj |-> obj, p |-> p, err |-> ""]

\* The fixed-width integer fields in the order WanPath::deserialize and
\* Peer::deserialize read them, each with its sizeof.
WanInts ==
    <<<<"lastSend", 8>>, <<"lastReceive", 8>>, <<"lastFirewallOpener", 8>>,
      <<"localPort", 8>>>>

PeerInts ==
    <<<<"lastUsed", 8>>, <<"lastUnicastFrame", 8>>, <<"lastMulticastFrame", 8>>,
      <<"lastAnnouncedTo", 8>>,
      <<"vMajor", 2>>, <<"vMinor", 2>>, <<"vRevision", 2>>, <<"latency", 2>>>>

RECURSIVE ReadInts_Lenient(_, _, _, _)
\* A slip that reads a field lying outside the buffer as zero.
ReadInts_Lenient(b, c, fields, i) ==
    IF i > Len(fields) \/ c.err # "" THEN c
    ELSE ReadInts_Lenient(b,
                  [c EXCEPT !.obj[fields[i][1]] =
                                IF InBounds(b, c.p, fields[i][2])
                                THEN FromBE(field(b, c.p, fields[i][2]))
                                ELSE 0,
                            !.p = c.p + fields[i][2]],
                  fields, i + 1)

RECURSIVE ReadInts(_, _, _, _)
\* x = b.at<T>(p); p += sizeof(T), for the fields from the i-th on.  A read
\* outside the buffer throws std::out_of_range; the fields read before it
\* stay assigned.
ReadInts(b, c, fields, i) ==
    IF i > Len(fields) \/ c.err # "" THEN c
    ELSE IF ~InBounds(b, c.p, fields[i][2]) THEN [c EXCEPT !.err = "out_of_range"]
    ELSE ReadInts(b,
                  [c EXCEPT !.obj[fields[i][1]] =
                                FromBE(field(b, c.p, fields[i][2])),
                            !.p = c.p + fields[i][2]],
                  fields, i + 1)

\* memcpy(x, b.field(p, n), n); p += n
ReadBytes(b, c, name, n) ==
    IF c.err # "" THEN c
    ELSE IF ~InBounds(b, c.p, n) THEN [c EXCEPT !.err = "out_of_range"]
    ELSE [c EXCEPT !.obj[name] = field(b, c.p, n), !.p = c.p + n]

\* InetAddress::set(ip, len, port)
InetSet(bytes, len) ==
    [type |-> IF len = 4 THEN TYPE_IPV4 ELSE TYPE_IPV6,
     ip |-> SubSeq(bytes, 1, len),
     port |-> FromBE(SubSeq(bytes, len + 1, len + 2))]

\* WanPath::deserialize: the switch on the address type byte b[p++].
ReadAddr(b, c) ==
    IF c.err # "" THEN c
    ELSE IF ~InBounds(b, c.p, 1) THEN [c EXCEPT !.err = "out_of_range"]
    ELSE CASE b[c.p + 1] = TYPE_NULL ->
                [c EXCEPT !.obj.addr = NullAddr, !.p = c.p + 1]
           [] b[c.p + 1] = TYPE_IPV4 ->
                IF ~InBounds(b, c.p + 1, 6)
                THEN [c EXCEPT !.p = c.p + 1, !.err = "out_of_range"]
                ELSE [c EXCEPT !.obj.addr = InetSet(field(b, c.p + 1, 6), 4),
                               !.p = c.p + 7]
           [] b[c.p + 1] = TYPE_IPV6 ->
                IF ~InBounds(b, c.p + 1, 18)
                THEN [c EXCEPT !.p = c.p + 1, !.err = "out_of_range"]
                ELSE [c EXCEPT !.obj.addr = InetSet(field(b, c.p + 1, 18), 16),
                               !.p = c.p + 19]
           [] OTHER -> [c EXCEPT !.p = c.p + 1]

\* WanPath::deserialize: fixed = (b[p++] != 0)
ReadFixed(b, c) ==
    IF c.err # "" THEN c
    ELSE IF ~InBounds(b, c.p, 1) THEN [c EXCEPT !.err = "out_of_range"]
    ELSE [c EXCEPT !.obj.fixed = (b[c.p + 1] # 0), !.p = c.p + 1]

\* WanPath::deserialize, from a cursor on the WanPath to a cursor on it.
wanDeserialize(b, c) == ReadFixed(b, ReadAddr(b, ReadInts(b, c, WanInts, 1)))

\* p += _ipv4p.deserialize(b, p) and p += _ipv6p.deserialize(b, p)
ReadWanPath(b, c, name) ==
    IF c.err # "" THEN c
    ELSE LET w == wanDeserialize(b, Cursor(c.obj[name], c.p))
         IN  [obj |-> [c.obj EXCEPT ![name] = w.obj], p |-> w.p, err |-> w.err]

\* Peer::deserialize's reads after the version byte.
deserializeFields(b, c) ==
    ReadInts(b,
             ReadWanPath(b,
                 ReadWanPath(b,
                     ReadBytes(b,
                         ReadBytes(b, c, "key", ZT_PEER_SECRET_KEY_LENGTH),
                         "id", IdentityLength),
                     "ipv4p"),
                 "ipv6p"),
             PeerInts, 1)

\* A slip that copies the key before it looks at the version byte.
deserialize_KeyFirst(q, b, startAt) ==
    LET c1 == ReadBytes(b, Cursor(q, startAt + 1), "key",
                        ZT_PEER_SECRET_KEY_LENGTH)
    IN  IF ~InBounds(b, startAt, 1)
        THEN [peer |-> q, n |-> 0, err |-> "out_of_range"]
        ELSE IF b[startAt + 1] # ZT_PEER_SERIALIZATION_VERSION
        THEN [peer |-> c1.obj, n |-> 0, err |-> "invalid_argument"]
        ELSE LET c == deserializeFields(b, Cursor(q, startAt + 1))
             IN  [peer |-> c.obj,
                  n |-> IF c.err = "" THEN c.p - startAt ELSE 0,
                  err |-> c.err]

\* Peer::deserialize into q: the record as left behind, the count returned
\* (on success) and the exception thrown ("" on success).
deserialize(q, b, startAt) ==
    IF ~InBounds(b, startAt, 1)
    THEN [peer |-> q, n |-> 0, err |-> "out_of_range"]
    ELSE IF b[startAt + 1] # ZT_PEER_SERIALIZATION_VERSION
    THEN [peer |-> q, n |-> 0, err |-> "invalid_argument"]
    ELSE LET c == deserializeFields(b, Cursor(q, startAt + 1))
         IN  [peer |-> c.obj,
              n |-> IF c.err = "" THEN c.p - startAt ELSE 0,
              err |-> c.err]

-----------------------------------------------------------------------------
(* The operations as actions *)

\* How many records one Buffer holds.
MaxRecs == 2

\* The last call: its name and the arguments it was given (those it does
\* not take are left at their defaults).
Call(name, now, hops, flag, addr, at) ==
    [name |-> name, now |-> now, hops |-> hops, flag |-> flag, addr |-> addr,
     at |-> at]

NoCall == Call("none", 0, 0, FALSE, NullAddr, 0)

Returned(val, err) == [val |-> val, err |-> err]

Void == Returned(0, "")

Init ==
    /\ peer = NewPeer(KeyA, IdA)
    /\ other = NewPeer(KeyB, NullId)
    /\ op = NoCall
    /\ ret = Void
    /\ buf = <<>>
    /\ wrote = <<>>

\* onReceive with its arguments drawn from the given sets.
Receive(ras, hopss, verbs, times) ==
    \E lp \in LocalPorts, ra \in ras, hops \in hopss, verb \in verbs,
       now \in times :
        /\ peer' = onReceive(peer, lp, ra, hops, verb, now)
        /\ op' = Call("onReceive", now, hops, FALSE, ra, 0)
        /\ ret' = Void
        /\ UNCHANGED <<other, buf, wrote>>

\* setPathAddress with its arguments drawn from the given set.
SetPath(args) ==
    \E a \in args :
        /\ peer' = setPathAddress(peer, a[1], a[2])
        /\ op' = Call("setPathAddress", 0, 0, a[2], a[1], 0)
        /\ ret' = Void
        /\ UNCHANGED <<other, buf, wrote>>

OnReceive == Receive(Addrs4 \cup Addrs6, {0, 1}, {"NOP"}, Times)

SetPathAddress == SetPath((Addrs4 \cup Addrs6) \X BOOLEAN)

ClearFixedFlag ==
    \E t \in {TYPE_NULL, TYPE_IPV4, TYPE_IPV6} :
        /\ peer' = clearFixedFlag(peer, t)
        /\ op' = Call("clearFixedFlag", 0, t, FALSE, NullAddr, 0)
        /\ ret' = Void
        /\ UNCHANGED <<other, buf, wrote>>

ForgetDirectPaths ==
    \E fixedToo \in BOOLEAN :
        /\ peer' = forgetDirectPaths(peer, fixedToo)
        /\ op' = Call("forgetDirectPaths", 0, 0, fixedToo, NullAddr, 0)
        /\ ret' = Void
        /\ UNCHANGED <<other, buf, wrote>>

\* The activity queries at one time: ipv4ActivePath, ipv6ActivePath,
\* hasActiveDirectPath.
ActivePath ==
    \E now \in Times :
        /\ op' = Call("activePath", now, 0, FALSE, NullAddr, 0)
        /\ ret' = Returned([v4 |-> ipv4ActivePath(peer, now),
                            v6 |-> ipv6ActivePath(peer, now),
                            any |-> hasActiveDirectPath(peer, now)], "")
        /\ UNCHANGED <<peer, other, buf, wrote>>

\* The address queries: ipv4Path, ipv6Path, hasDirectPath.
Path ==
    /\ op' = Call("path", 0, 0, FALSE, NullAddr, 0)
    /\ ret' = Returned([v4 |-> ipv4Path(peer),
                        v6 |-> ipv6Path(peer),
                        any |-> hasDirectPath(peer)], "")
    /\ UNCHANGED <<peer, other, buf, wrote>>

Next ==
    \/ OnReceive
    \/ SetPathAddress
    \/ ClearFixedFlag
    \/ ForgetDirectPaths
    \/ ActivePath
    \/ Path

\* The life of one Peer under its path operations.
Spec == Init /\ [][Next]_vars

-----------------------------------------------------------------------------
(* Rendezvous: findCommonGround over two Peers in any path state *)

\* The states of one WanPath: no address or the given one, fixed or not,
\* last heard from at any time.
PathStates(addr) ==
    {[NewWanPath EXCEPT !.addr = a, !.fixed = f, !.lastReceive = t] :
        a \in {NullAddr, addr}, f \in BOOLEAN, t \in Times}

PeerStates(key, id, a4, a6) ==
    {[NewPeer(key, id) EXCEPT !.ipv4p = w4, !.ipv6p = w6] :
        w4 \in PathStates(a4), w6 \in PathStates(a6)}

InitRendezvous ==
    /\ peer \in PeerStates(KeyA, IdA, V4a, V6a)
    /\ other \in PeerStates(KeyB, IdB, V4b, V6b)
    /\ op = NoCall
    /\ ret = Void
    /\ buf = <<>>
    /\ wrote = <<>>

FindCommonGround ==
    \E now \in Times :
        /\ op' = Call("findCommonGround", now, 0, FALSE, NullAddr, 0)
        /\ ret' = Returned(findCommonGround(peer, other, now), "")
        /\ UNCHANGED <<peer, other, buf, wrote>>

NextRendezvous == FindCommonGround

SpecRendezvous == InitRendezvous /\ [][NextRendezvous]_vars

-----------------------------------------------------------------------------
(* Persistence: records are written to a Buffer and read back *)

\* A version triple as a HELLO carries it, and one whose major version does
\* not fit sixteen bits.
CodecVersions == {<<1, 2, 3>>, <<65537, 65535, 7>>}

\* Version bytes of other formats.
OtherFormats == {5, 7}

\* Where the records of the history start in the buffer, and where the
\* last one ends.
Offsets == {wrote[k].at : k \in 1 .. Len(wrote)} \cup {Len(buf)}

\* Every record in the buffer still starts with the byte serialize wrote.
Intact ==
    \A k \in 1 .. Len(wrote) : buf[wrote[k].at + 1] = ZT_PEER_SERIALIZATION_VERSION

CodecOnReceive ==
    /\ wrote = <<>>
    /\ Receive({V4b}, {0}, {"FRAME", "MULTICAST_FRAME"}, {1})

CodecSetPathAddress ==
    /\ Len(wrote) < MaxRecs
    /\ Intact
    /\ SetPath({<<V4a, TRUE>>, <<V6a, FALSE>>})

SetRemoteVersion ==
    /\ wrote = <<>>
    /\ \E v \in CodecVersions :
        /\ peer' = setRemoteVersion(peer, v[1], v[2], v[3])
        /\ op' = Call("setRemoteVersion", 0, 0, FALSE, NullAddr, 0)
        /\ ret' = Void
        /\ UNCHANGED <<other, buf, wrote>>

AddDirectLatencyMeasurment ==
    /\ wrote = <<>>
    /\ \E l \in {300} :
        /\ peer' = addDirectLatencyMeasurment(peer, l)
        /\ op' = Call("addDirectLatencyMeasurment", 0, 0, FALSE, NullAddr, 0)
        /\ ret' = Void
        /\ UNCHANGED <<other, buf, wrote>>

Serialize ==
    /\ Len(wrote) < MaxRecs
    /\ Intact
    /\ buf' = buf \o serialize(peer)
    /\ wrote' = Append(wrote, [peer |-> peer, at |-> Len(buf)])
    /\ op' = Call("serialize", 0, 0, FALSE, NullAddr, 0)
    /\ ret' = Void
    /\ UNCHANGED <<peer, other>>

\* The buffer turns out to hold a record of another format version.
OtherFormat ==
    \E k \in 1 .. Len(wrote), v \in OtherFormats :
        /\ Intact
        /\ buf' = [buf EXCEPT ![wrote[k].at + 1] = v]
        /\ op' = Call("otherFormat", 0, 0, FALSE, NullAddr, wrote[k].at)
        /\ ret' = Void
        /\ UNCHANGED <<peer, other, wrote>>

Deserialize ==
    \E startAt \in Offsets :
        /\ wrote # <<>>
        /\ LET d == deserialize(other, buf, startAt)
           IN  /\ other' = d.peer
               /\ ret' = Returned(d.n, d.err)
        /\ op' = Call("deserialize", 0, 0, FALSE, NullAddr, startAt)
        /\ UNCHANGED <<peer, buf, wrote>>

NextCodec ==
    \/ CodecOnReceive
    \/ CodecSetPathAddress
    \/ SetRemoteVersion
    \/ AddDirectLatencyMeasurment
    \/ Serialize
    \/ OtherFormat
    \/ Deserialize

SpecCodec == Init /\ [][NextCodec]_vars

-----------------------------------------------------------------------------
(* Loading: one record is saved, and the Buffer handed to deserialize holds
   it whole, or cut short, or holds a record that another writer produced *)

\* A record as a writer of the same format version lays it out when it
\* puts the IPv6 block before the IPv4 block.
foreignRecord(p) ==
    <<ZT_PEER_SERIALIZATION_VERSION>> \o p.key \o p.id
    \o wanSerialize(p.ipv6p) \o wanSerialize(p.ipv4p)
    \o BE(p.lastUsed, 8) \o BE(p.lastUnicastFrame, 8)
    \o BE(p.lastMulticastFrame, 8) \o BE(p.lastAnnouncedTo, 8)
    \o BE(Cast16(p.vMajor), 2) \o BE(Cast16(p.vMinor), 2)
    \o BE(Cast16(p.vRevision), 2) \o BE(Cast16(p.latency), 2)

LoadOnReceive ==
    /\ buf = <<>>
    /\ Receive({V4b, V6a}, {0}, {"NOP"}, {1})

LoadSetPathAddress ==
    /\ buf = <<>>
    /\ SetPath({<<V4a, TRUE>>, <<V6a, FALSE>>})

LoadClearFixedFlag ==
    /\ buf = <<>>
    /\ ClearFixedFlag

LoadForgetDirectPaths ==
    /\ buf = <<>>
    /\ ForgetDirectPaths

Save ==
    /\ buf = <<>>
    /\ Serialize

\* The saved record loses its tail: the Buffer keeps the first n bytes.
Truncate ==
    /\ wrote # <<>>
    /\ buf = serialize(wrote[1].peer)
    /\ \E n \in 1 .. (Len(buf) - 1) :
          /\ buf' = SubSeq(buf, 1, n)
          /\ op' = Call("truncate", 0, 0, FALSE, NullAddr, n)
    /\ ret' = Void
    /\ UNCHANGED <<peer, other, wrote>>

\* The Buffer is filled by another writer instead.
ForeignRecord ==
    /\ buf = <<>>
    /\ buf' = foreignRecord(peer)
    /\ op' = Call("foreignRecord", 0, 0, FALSE, NullAddr, 0)
    /\ ret' = Void
    /\ UNCHANGED <<peer, other, wrote>>

\* deserialize(b, 0) into the second Peer.
Load ==
    /\ buf # <<>>
    /\ LET d == deserialize(other, buf, 0)
       IN  /\ other' = d.peer
           /\ ret' = Returned(d.n, d.err)
    /\ op' = Call("deserialize", 0, 0, FALSE, NullAddr, 0)
    /\ UNCHANGED <<peer, buf, wrote>>

NextLoad ==
    \/ LoadOnReceive
    \/ LoadSetPathAddress
    \/ LoadClearFixedFlag
    \/ LoadForgetDirectPaths
    \/ Save
    \/ Truncate
    \/ ForeignRecord
    \/ Load

SpecLoad == Init /\ [][NextLoad]_vars

-----------------------------------------------------------------------------
(* Latency: measurements are folded into the estimate, which is queried and
   survives a save and a load of the record *)

\* The largest sample the model feeds; stands for UINT_MAX.
MaxSample == 1000000

\* Latency measurements in ms: none, small, even and odd, beyond sixteen bits.
Samples == {0, 100, 200, 201, 70000, MaxSample}

\* The estimates a Peer starts from: unknown, the smallest and the largest
\* plausible prior, the first implausible one, the largest that is stored.
Estimates == {0, 1, 9999, 10000, 65535}

InitLatency ==
    /\ peer \in {[NewPeer(KeyA, IdA) EXCEPT !.latency = e] : e \in Estimates}
    /\ other = NewPeer(KeyB, NullId)
    /\ op = NoCall
    /\ ret = Void
    /\ buf = <<>>
    /\ wrote = <<>>

\* addDirectLatencyMeasurment(l); the sample is recorded in op.at.
Measure ==
    \E l \in Samples :
        /\ peer' = addDirectLatencyMeasurment(peer, l)
        /\ op' = Call("addDirectLatencyMeasurment", 0, 0, FALSE, NullAddr, l)
        /\ ret' = Void
        /\ UNCHANGED <<other, buf, wrote>>

\* latency()
Latency ==
    /\ op' = Call("latency", 0, 0, FALSE, NullAddr, 0)
    /\ ret' = Returned(latency(peer), "")
    /\ UNCHANGED <<peer, other, buf, wrote>>

\* The record is saved and loaded again: serialized into a Buffer of its
\* own and deserialized from it in place.
Restore ==
    /\ LET d == deserialize(peer, serialize(peer), 0)
       IN  /\ peer' = d.peer
           /\ ret' = Returned(d.n, d.err)
    /\ op' = Call("deserialize", 0, 0, FALSE, NullAddr, 0)
    /\ UNCHANGED <<other, buf, wrote>>

NextLatency ==
    \/ Measure
    \/ Latency
    \/ Restore

SpecLatency == InitLatency /\ [][NextLatency]_vars

-----------------------------------------------------------------------------
(* Claims about findCommonGround, checked under SpecRendezvous *)

Called(name) == op.name = name

\* The pair of one family: B's address for A, A's address for B.
PairV4(a, b) == <<b.ipv4p.addr, a.ipv4p.addr>>
PairV6(a, b) == <<b.ipv6p.addr, a.ipv6p.addr>>

BothActive4(a, b, now) == isActive(a.ipv4p, now) /\ isActive(b.ipv4p, now)
BothActive6(a, b, now) == isActive(a.ipv6p, now) /\ isActive(b.ipv6p, now)
BothKnown4(a, b) == NonNull(a.ipv4p.addr) /\ NonNull(b.ipv4p.addr)
BothKnown6(a, b) == NonNull(a.ipv6p.addr) /\ NonNull(b.ipv6p.addr)

\* C1: findCommonGround is symmetric under argument swap: whatever pair
\* (x, y) it returns for (A, B, now), it returns (y, x) for (B, A, now), in
\* every combination of active, stale and null paths.
C1_Symmetric ==
    Called("findCommonGround") =>
        findCommonGround(other, peer, op.now) = <<ret.val[2], ret.val[1]>>

\* C1's case: A's IPv6 address is stale, B's is active, there is no IPv4
\* pair, and the stale IPv6 pair is handed out.
C1_Witness ==
    /\ Called("findCommonGround")
    /\ NonNull(peer.ipv6p.addr) /\ ~isActive(peer.ipv6p, op.now)
    /\ isActive(other.ipv6p, op.now)
    /\ ~NonNull(peer.ipv4p.addr)
    /\ ret.val = <<V6b, V6a>>

\* C2: when both peers have an active IPv4 path and an active IPv6 path at
\* `now`, findCommonGround returns the IPv6 pair (B's IPv6 address, A's
\* IPv6 address) and not the IPv4 pair.
C2_PrefersIPv6 ==
    (/\ Called("findCommonGround")
     /\ BothActive4(peer, other, op.now)
     /\ BothActive6(peer, other, op.now))
    => /\ ret.val = <<other.ipv6p.addr, peer.ipv6p.addr>>
       /\ ret.val # PairV4(peer, other)

\* C2's case: all four paths are active, two of them only by their last
\* receive and two only by being fixed.
C2_Witness ==
    /\ Called("findCommonGround")
    /\ BothActive4(peer, other, op.now)
    /\ BothActive6(peer, other, op.now)
    /\ ~peer.ipv4p.fixed /\ other.ipv4p.fixed
    /\ peer.ipv6p.fixed /\ ~other.ipv6p.fixed
    /\ ret.val = <<V6b, V6a>>

\* The four rules of the rendezvous, in their order of preference.
RuleHolds(i, a, b, now) ==
    CASE i = 1 -> BothActive6(a, b, now)
      [] i = 2 -> BothActive4(a, b, now)
      [] i = 3 -> BothKnown6(a, b)
      [] i = 4 -> BothKnown4(a, b)

\* The reference: the first rule that holds decides the family.
ReferenceCommonGround(a, b, now) ==
    LET holding == {i \in 1 .. 4 : RuleHolds(i, a, b, now)}
    IN  IF holding = {} THEN <<NullAddr, NullAddr>>
        ELSE LET first == CHOOSE i \in holding : \A j \in holding : i <= j
             IN  IF first \in {1, 3} THEN PairV6(a, b) ELSE PairV4(a, b)

\* C3: findCommonGround equals the reference that tries four rules in
\* order, first match wins (both IPv6 active, both IPv4 active, both IPv6
\* known, both IPv4 known, else the empty pair); an active IPv4 pair wins
\* over an IPv6 pair with a stale side; the empty pair is returned exactly
\* when no family is known on both sides.
C3_RuleOrder ==
    Called("findCommonGround") =>
        /\ ret.val = ReferenceCommonGround(peer, other, op.now)
        /\ (/\ BothActive4(peer, other, op.now)
            /\ BothKnown6(peer, other)
            /\ ~BothActive6(peer, other, op.now))
           => ret.val = PairV4(peer, other)
        /\ ret.val = <<NullAddr, NullAddr>>
           <=> ~BothKnown4(peer, other) /\ ~BothKnown6(peer, other)

\* C3's case: both IPv4 paths are active and both peers have an IPv6
\* address of which A's is stale; the IPv4 pair is returned.
C3_Witness ==
    /\ Called("findCommonGround")
    /\ BothActive4(peer, other, op.now)
    /\ BothKnown6(peer, other)
    /\ ~isActive(peer.ipv6p, op.now) /\ isActive(other.ipv6p, op.now)
    /\ ret.val = <<V4b, V4a>>

-----------------------------------------------------------------------------
(* Claims about path activity and the fixed-path policy, checked under Spec *)

Families == {"ipv4p", "ipv6p"}

\* What the activity query answered for one family's path.
AnsweredActive(f) ==
    IF f = "ipv4p" THEN NonNull(ret.val.v4) ELSE NonNull(ret.val.v6)

\* C4 as stated, the age taken as the difference of two numbers:
\* isActive(now) holds iff the address is non-null and (fixed or
\* now - lastReceive < ACTIVITY_TIMEOUT).
C4_AsStated ==
    Called("activePath") =>
        \A f \in Families :
            AnsweredActive(f) <=>
                /\ NonNull(peer[f].addr)
                /\ \/ peer[f].fixed
                   \/ op.now - peer[f].lastReceive < ZT_PEER_LINK_ACTIVITY_TIMEOUT

\* C4 (amended): isActive(now) holds iff the address is non-null and (fixed
\* or age < ACTIVITY_TIMEOUT), where age is now - lastReceive as the
\* unsigned 64-bit subtraction gives it (modulo 2^64); for a non-fixed path
\* with an address the boundary is exclusive: inactive at age =
\* ACTIVITY_TIMEOUT and at every larger age.
C4_ActiveIff ==
    Called("activePath") =>
        \A f \in Families :
            LET age == (op.now - peer[f].lastReceive) % U64
            IN  /\ AnsweredActive(f) <=>
                      /\ NonNull(peer[f].addr)
                      /\ (peer[f].fixed \/ age < ZT_PEER_LINK_ACTIVITY_TIMEOUT)
                /\ (/\ ~peer[f].fixed
                    /\ NonNull(peer[f].addr)
                    /\ age >= ZT_PEER_LINK_ACTIVITY_TIMEOUT)
                   => ~AnsweredActive(f)

\* C4's case: a learned, non-fixed IPv4 path asked exactly at the boundary
\* (age = ACTIVITY_TIMEOUT) is answered inactive.
C4_Witness ==
    /\ Called("activePath")
    /\ NonNull(peer.ipv4p.addr) /\ ~peer.ipv4p.fixed
    /\ op.now - peer.ipv4p.lastReceive = ZT_PEER_LINK_ACTIVITY_TIMEOUT
    /\ ~AnsweredActive("ipv4p")

\* C5: a path with fixed = true and a non-null address is active at every
\* `now`, however old lastReceive is, in every reachable state: neither
\* time nor receive events make it inactive while flag and address stay.
C5_FixedAlwaysActive ==
    \A f \in Families :
        (peer[f].fixed /\ NonNull(peer[f].addr)) =>
            /\ \A now \in Times :
                  isActive(peer[f], now) /\ hasActiveDirectPath(peer, now)
            /\ Called("activePath") => AnsweredActive(f) /\ ret.val.any

\* C5's case: a fixed IPv4 path that has received, asked at an age at or
\* past the timeout, is answered active with its address.
C5_Witness ==
    /\ Called("activePath")
    /\ peer.ipv4p.fixed /\ peer.ipv4p.addr = V4a
    /\ peer.ipv4p.lastReceive # 0
    /\ Sub64(op.now, peer.ipv4p.lastReceive) >= ZT_PEER_LINK_ACTIVITY_TIMEOUT
    /\ ~NonNull(peer.ipv6p.addr)
    /\ ret.val.v4 = V4a /\ ret.val.any

\* The family's path an address belongs to.
FamilyOf(addr) == IF isV4(addr) THEN "ipv4p" ELSE "ipv6p"

\* C6: address learning never overwrites a fixed path's address:
\* setPathAddress(addr, true) pins addr; no onReceive (any hop count, any
\* remote address, any time) changes the address of a fixed path, which
\* changes only by setPathAddress, clearFixedFlag or forgetDirectPaths;
\* onReceive with hop count zero on a non-fixed path adopts the remote
\* address.
C6_FixedNotLearned ==
    [][/\ (op'.name = "setPathAddress" /\ op'.flag) =>
              /\ peer'[FamilyOf(op'.addr)].addr = op'.addr
              /\ peer'[FamilyOf(op'.addr)].fixed
       /\ \A f \in Families :
              /\ (op'.name = "onReceive" /\ peer[f].fixed) =>
                     peer'[f].addr = peer[f].addr /\ peer'[f].fixed
              /\ (peer[f].fixed /\ peer'[f].addr # peer[f].addr) =>
                     op'.name \in {"setPathAddress", "clearFixedFlag",
                                   "forgetDirectPaths"}
              /\ (/\ op'.name = "onReceive"
                  /\ op'.hops = 0
                  /\ FamilyOf(op'.addr) = f
                  /\ ~peer[f].fixed)
                 => peer'[f].addr = op'.addr]_vars

\* C6's case: a direct packet from another IPv4 address has been received
\* on a fixed IPv4 path, which still has its pinned address.
C6_Witness ==
    /\ Called("onReceive") /\ op.hops = 0 /\ op.addr = V4b /\ op.now = 3
    /\ peer.ipv4p.fixed /\ peer.ipv4p.addr = V4a
    /\ peer.ipv4p.lastReceive = 3

\* C10: forgetDirectPaths(false) zeroes the address of each non-fixed path
\* and leaves a fixed path's address; forgetDirectPaths(true) zeroes both;
\* every other field of the record is unchanged.
C10_ForgetFrame ==
    [][op'.name = "forgetDirectPaths" =>
          /\ \A f \in Families :
                /\ peer'[f].addr =
                      IF op'.flag \/ ~peer[f].fixed THEN NullAddr
                      ELSE peer[f].addr
                /\ \A g \in DOMAIN peer[f] \ {"addr"} : peer'[f][g] = peer[f][g]
          /\ \A g \in DOMAIN peer \ Families : peer'[g] = peer[g]
          /\ DOMAIN peer' = DOMAIN peer]_vars

\* C10's case: forgetDirectPaths(false) on a record with a fixed IPv4 path
\* and a learned IPv6 path: the first is kept, the second is gone.
C10_Witness ==
    /\ Called("forgetDirectPaths") /\ ~op.flag
    /\ peer.ipv4p.fixed /\ peer.ipv4p.addr = V4a
    /\ ~peer.ipv6p.fixed /\ ~NonNull(peer.ipv6p.addr)
    /\ peer.ipv6p.localPort = 1

\* C14: ipv6Path() returns the address held by the IPv6 path, null if it
\* has none, in every state: null for a peer with only an IPv4 address on
\* record, the IPv6 address for a peer with only an IPv6 address on record.
C14_Ipv6Path ==
    Called("path") =>
        /\ ret.val.v6 = peer.ipv6p.addr
        /\ (NonNull(peer.ipv4p.addr) /\ ~NonNull(peer.ipv6p.addr)) =>
               ret.val.v6 = NullAddr
        /\ (~NonNull(peer.ipv4p.addr) /\ NonNull(peer.ipv6p.addr)) =>
               isV6(ret.val.v6)

\* The path of the other family.
OtherFamily(f) == IF f = "ipv4p" THEN "ipv6p" ELSE "ipv4p"

\* C16: onReceive with a non-zero hop count updates lastUsed and leaves both
\* paths as they were (address, local port, lastReceive, fixed); a receipt
\* with hop count zero updates lastReceive of the path of the remote
\* address's family and never touches the other family's path; nothing but
\* a receipt with hop count zero changes a lastReceive.
C16_RelayedFrame ==
    [][/\ op'.name = "onReceive" =>
              /\ peer'.lastUsed = op'.now
              /\ op'.hops # 0 =>
                     peer'.ipv4p = peer.ipv4p /\ peer'.ipv6p = peer.ipv6p
              /\ op'.hops = 0 =>
                     /\ peer'[FamilyOf(op'.addr)].lastReceive = op'.now
                     /\ peer'[OtherFamily(FamilyOf(op'.addr))] =
                            peer[OtherFamily(FamilyOf(op'.addr))]
       /\ \A f \in Families :
              peer'[f].lastReceive # peer[f].lastReceive =>
                  /\ op'.name = "onReceive" /\ op'.hops = 0
                  /\ FamilyOf(op'.addr) = f]_vars

\* C16's case: a relayed packet from another IPv4 address arrived at time 3
\* for a peer with a learned IPv4 path last heard at time 1: lastUsed is 3,
\* the path is as it was.
C16_Witness ==
    /\ Called("onReceive") /\ op.hops = 1 /\ op.addr = V4b /\ op.now = 3
    /\ peer.lastUsed = 3
    /\ ~peer.ipv4p.fixed /\ peer.ipv4p.addr = V4a
    /\ peer.ipv4p.lastReceive = 1 /\ peer.ipv4p.localPort = 1

\* C18 as stated: for a non-fixed path with an address, isActive(now) holds
\* iff (now - lastReceive) mod 2^64 < ACTIVITY_TIMEOUT, and a path whose
\* lastReceive is later than now is reported inactive.
C18_AsStated ==
    Called("activePath") =>
        \A f \in Families :
            (~peer[f].fixed /\ NonNull(peer[f].addr)) =>
                /\ AnsweredActive(f) <=>
                       Sub64(op.now, peer[f].lastReceive)
                           < ZT_PEER_LINK_ACTIVITY_TIMEOUT
                /\ peer[f].lastReceive > op.now => ~AnsweredActive(f)

\* C18 (amended): for a non-fixed path with an address, isActive(now) holds
\* iff (now - lastReceive) mod 2^64 < ACTIVITY_TIMEOUT; a path whose
\* lastReceive is later than now is reported inactive unless lastReceive is
\* ahead of now by more than 2^64 - ACTIVITY_TIMEOUT, when the difference
\* wraps to an age below the timeout and the path is reported active.
C18_WrappedAge ==
    Called("activePath") =>
        \A f \in Families :
            (~peer[f].fixed /\ NonNull(peer[f].addr)) =>
                LET ahead == peer[f].lastReceive - op.now
                IN  /\ AnsweredActive(f) <=>
                           Sub64(op.now, peer[f].lastReceive)
                               < ZT_PEER_LINK_ACTIVITY_TIMEOUT
                    /\ (ahead > 0 /\ ahead <= U64 - ZT_PEER_LINK_ACTIVITY_TIMEOUT)
                       => ~AnsweredActive(f)
                    /\ ahead > U64 - ZT_PEER_LINK_ACTIVITY_TIMEOUT
                       => AnsweredActive(f)

\* C18's case: a learned IPv6 path last heard one tick after the time of
\* the query is answered inactive.
C18_Witness ==
    /\ Called("activePath")
    /\ ~peer.ipv6p.fixed /\ peer.ipv6p.addr = V6a
    /\ peer.ipv6p.lastReceive = op.now + 1
    /\ ~AnsweredActive("ipv6p")

\* C19: forgetDirectPaths(true) clears a fixed path's address and keeps its
\* fixed flag; such a path (fixed, no address) is inactive at every now; no
\* onReceive gives it an address or unpins it; it gets an address again
\* only by setPathAddress, and stops being fixed only by clearFixedFlag or
\* setPathAddress, after which a direct receipt is learned.
C19_ForgottenStaysPinned ==
    [][\A f \in Families :
          /\ (op'.name = "forgetDirectPaths" /\ op'.flag /\ peer[f].fixed) =>
                 peer'[f].fixed /\ peer'[f].addr = NullAddr
          /\ (peer'[f].fixed /\ ~NonNull(peer'[f].addr)) =>
                 /\ \A now \in Times : ~isActive(peer'[f], now)
                 /\ op'.name = "activePath" => ~AnsweredActive(f)'
          /\ (peer[f].fixed /\ ~NonNull(peer[f].addr)) =>
                 /\ op'.name = "onReceive" =>
                        peer'[f].fixed /\ ~NonNull(peer'[f].addr)
                 /\ NonNull(peer'[f].addr) => op'.name = "setPathAddress"
                 /\ ~peer'[f].fixed =>
                        op'.name \in {"clearFixedFlag", "setPathAddress"}
          /\ (/\ ~peer[f].fixed /\ ~NonNull(peer[f].addr)
              /\ op'.name = "onReceive" /\ op'.hops = 0
              /\ FamilyOf(op'.addr) = f)
             => peer'[f].addr = op'.addr]_vars

\* C19's case: a direct packet from an IPv4 address has been received at
\* time 2 on a fixed IPv4 path that has no address, and it still has none.
C19_Witness ==
    /\ Called("onReceive") /\ op.hops = 0 /\ op.addr = V4b /\ op.now = 2
    /\ peer.ipv4p.fixed /\ ~NonNull(peer.ipv4p.addr)
    /\ peer.ipv4p.lastReceive = 2

-----------------------------------------------------------------------------
(* Claims about the codec, checked under SpecCodec *)

\* The record serialize wrote at an offset of the buffer.
RecordAt(at) ==
    wrote[CHOOSE k \in 1 .. Len(wrote) : wrote[k].at = at].peer

\* C7: serialize followed by deserialize reproduces every field of every
\* record the public operations (setRemoteVersion among them) can produce,
\* and serializing the decoded record yields the same bytes.
C7_RoundTrip ==
    (Called("deserialize") /\ ret.err = "") =>
        /\ other = RecordAt(op.at)
        /\ serialize(other) = serialize(RecordAt(op.at))

\* C8: decoding a buffer whose leading byte is not the current format
\* version fails with the format-mismatch error and leaves every field of
\* the target record as it was.
C8_VersionGate ==
    [][(/\ op'.name = "deserialize"
        /\ InBounds(buf, op'.at, 1)
        /\ buf[op'.at + 1] # ZT_PEER_SERIALIZATION_VERSION)
       => /\ ret'.err = "invalid_argument"
          /\ other' = other]_vars

\* C8's case: a target that an earlier decode filled is handed a record of
\* another format version; the decode fails and the target keeps the
\* earlier record.
C8_Witness ==
    /\ Called("deserialize") /\ ret.err = "invalid_argument"
    /\ buf[op.at + 1] \in OtherFormats
    /\ other.id = IdA /\ other.key = KeyA

\* The bytes one WanPath block takes by its address type.
WanPathBytes(wp) ==
    34 + (CASE wp.addr.type = TYPE_IPV4 -> 6
            [] wp.addr.type = TYPE_IPV6 -> 18
            [] OTHER -> 0)

\* The bytes serialize appended for the k-th record of the history.
Appended(k) ==
    (IF k < Len(wrote) THEN wrote[k + 1].at ELSE Len(buf)) - wrote[k].at

\* C9: a successful deserialize returns the number of bytes serialize
\* appended for the record (each WanPath block 34 bytes plus 0, 6 or 18),
\* so that decoding the records of one buffer each at the sum of the counts
\* returned before it recovers every record in order.
C9_Continues ==
    Called("serialize") =>
        \A k \in 1 .. Len(wrote) :
            LET d == deserialize(NewPeer(KeyB, NullId), buf, wrote[k].at)
            IN  /\ d.err = ""
                /\ d.n = Appended(k)
                /\ d.n = 1 + ZT_PEER_SECRET_KEY_LENGTH + IdentityLength
                         + WanPathBytes(wrote[k].peer.ipv4p)
                         + WanPathBytes(wrote[k].peer.ipv6p) + 40
                /\ wrote[k].at + d.n \in Offsets
                /\ d.peer = wrote[k].peer

\* The part of C9 about the count alone: every decode of a written record
\* succeeds, returns the bytes appended for it and so ends where the next
\* record starts.
C9_CountsOnly ==
    Called("serialize") =>
        \A k \in 1 .. Len(wrote) :
            LET d == deserialize(NewPeer(KeyB, NullId), buf, wrote[k].at)
            IN  /\ d.err = ""
                /\ d.n = Appended(k)
                /\ d.n = 1 + ZT_PEER_SECRET_KEY_LENGTH + IdentityLength
                         + WanPathBytes(wrote[k].peer.ipv4p)
                         + WanPathBytes(wrote[k].peer.ipv6p) + 40
                /\ wrote[k].at + d.n \in Offsets

-----------------------------------------------------------------------------
(* Claims about loading a record, checked under SpecLoad *)

\* Each of the two paths holds no address or one of its own family.
FamilyKeyed(p) ==
    /\ DOMAIN p \cap {"ipv4p", "ipv6p"} = {"ipv4p", "ipv6p"}
    /\ ~NonNull(p.ipv4p.addr) \/ isV4(p.ipv4p.addr)
    /\ ~NonNull(p.ipv6p.addr) \/ isV6(p.ipv6p.addr)

\* C13: in every state reached by onReceive, setPathAddress,
\* clearFixedFlag, forgetDirectPaths and a successful deserialize, the
\* record holds its two paths keyed by family: the IPv4 path's address is
\* null or IPv4, the IPv6 path's address is null or IPv6.
C13_FamilyKeyed ==
    /\ FamilyKeyed(peer)
    /\ (Called("deserialize") /\ ret.err = "") => FamilyKeyed(other)

\* The part of C13 that holds: the record the operations act on is keyed by
\* family, and so is one loaded from a Buffer that serialize wrote.
C13_OwnRecords ==
    /\ FamilyKeyed(peer)
    /\ (Called("deserialize") /\ ret.err = "" /\ wrote # <<>>) =>
           FamilyKeyed(other)

\* C15: decoding a truncated record never succeeds: for a proper prefix of
\* a valid encoding that keeps the version byte, deserialize fails with the
\* Buffer's out-of-range error and returns no byte count.
C15_TruncatedFails ==
    (/\ Called("deserialize")
     /\ wrote # <<>>
     /\ Len(buf) < Len(serialize(wrote[1].peer))
     /\ buf = SubSeq(serialize(wrote[1].peer), 1, Len(buf))
     /\ buf[1] = ZT_PEER_SERIALIZATION_VERSION)
    => /\ ret.err = "out_of_range"
       /\ ret.val = 0

\* C15's case: the record of a peer with an IPv4 and an IPv6 address, cut
\* one byte short, has been handed to deserialize, which failed.
C15_Witness ==
    /\ Called("deserialize")
    /\ wrote # <<>>
    /\ wrote[1].peer.ipv4p.addr = V4a /\ wrote[1].peer.ipv6p.addr = V6a
    /\ Len(buf) = Len(serialize(wrote[1].peer)) - 1
    /\ ret.err = "out_of_range"

-----------------------------------------------------------------------------
(* Claims about the latency estimate, checked under SpecLatency *)

\* The sample after clamping to [0, 65535].
Clamped(l) == IF l > 65535 THEN 65535 ELSE l

\* Whether an estimate counts as a plausible prior.
Plausible(e) == 0 < e /\ e < 10000

\* C11 as stated, the new estimate being the arithmetic mean itself:
\* twice the new estimate is the sum of the old one and the clamped sample.
C11_AsStated ==
    [][op'.name = "addDirectLatencyMeasurment" =>
          IF Plausible(peer.latency)
          THEN 2 * peer'.latency = peer.latency + Clamped(op'.at)
          ELSE peer'.latency = Clamped(op'.at)]_vars

\* C11 (amended): addDirectLatencyMeasurment(l) clamps l to [0, 65535]; with
\* the stored estimate strictly between 0 and 10000 the new estimate is the
\* mean of the old estimate and the clamped sample rounded down to an
\* integer, otherwise it is the clamped sample.  From 0, feeding 100 then
\* 200 yields 150; feeding 70000 from 0 stores 65535.
C11_MeanRoundedDown ==
    [][op'.name = "addDirectLatencyMeasurment" =>
          LET sum == peer.latency + Clamped(op'.at)
          IN  /\ Clamped(op'.at) \in 0 .. 65535
              /\ IF Plausible(peer.latency)
                 THEN /\ 2 * peer'.latency <= sum
                      /\ sum < 2 * peer'.latency + 2
                 ELSE peer'.latency = Clamped(op'.at)
              /\ (peer.latency = 0 /\ op'.at = 70000) => peer'.latency = 65535
              /\ (peer.latency = 0 /\ op'.at = 100) =>
                     addDirectLatencyMeasurment(peer', 200).latency = 150]_vars

\* C11's case: the estimate 150 that 200 leaves after 100, and an odd sum
\* behind: 201 was averaged into it, giving 175.
C11_Witness ==
    /\ Called("addDirectLatencyMeasurment") /\ op.at = 201
    /\ peer.latency = 175

\* C12: the stored latency estimate is in [0, 65535] and latency() returns
\* it unchanged, in every state reached by addDirectLatencyMeasurment with
\* arbitrary unsigned samples and by a successful deserialize.
C12_LatencyRange ==
    /\ peer.latency \in 0 .. 65535
    /\ latency(peer) = peer.latency
    /\ Called("latency") => ret.val = peer.latency

\* C12's case: a record whose estimate is the mean of 200 and a sample
\* beyond sixteen bits has been saved and loaded.
C12_Witness ==
    /\ Called("deserialize") /\ ret.err = ""
    /\ peer.latency = 32867
    /\ latency(peer) = 32867

====
